---- MODULE Spec2Model ----
(***************************************************************************)
(* The survey-analysis script src/main.py as a state machine.              *)
(*                                                                         *)
(* The state is the set of data frames of the main block (df, species_df,  *)
(* tide_df, time_df, tide_df_with_zeroes, time_df_with_zeroes), the        *)
(* artefacts the script produces (the csv file, the figures written or     *)
(* shown) and the position of the main block.  One action per statement of *)
(* the main block; the pandas operations are operators computed the way    *)
(* pandas computes them (index-aligned boolean masks, NaN-skipping sums,   *)
(* non-null counts, dropna on group keys).                                 *)
(*                                                                         *)
(* A cell is a tagged record: NaN (missing), Num(n) or a string.  Sizes are *)
(* kept in thousandths of a centimetre so that 0.001 is the integer 1.     *)
(***************************************************************************)
EXTENDS Integers, Sequences, FiniteSets, TLC

VARIABLES pc, failed, df, species_df, site_df, tide_df, time_df,
          tide_df_with_zeroes, time_df_with_zeroes, csv, fig, pval, outputs

vars == <<pc, failed, df, species_df, site_df, tide_df, time_df,
          tide_df_with_zeroes, time_df_with_zeroes, csv, fig, pval, outputs>>

frames == <<df, species_df, site_df, tide_df, time_df,
            tide_df_with_zeroes, time_df_with_zeroes>>

(***************************************************************************)
(* Bounds of the model.                                                    *)
(***************************************************************************)
\* rows of a sheet
MaxRows == 2
\* rows of a frame handed to get_pval_by_survey on its own
MaxSample == 3

(***************************************************************************)
(* Cells.                                                                  *)
(***************************************************************************)
NaN == [nan |-> TRUE]
Num(n) == [num |-> n]
Str(s) == [str |-> s]
\* the text s with l blanks before it and r blanks after it, as read from a sheet
Padded(s, l, r) == [str |-> s, lpad |-> l, rpad |-> r]

isnull(c) == c = NaN
notnull(c) == c # NaN
is_str(c) == "str" \in DOMAIN c
is_num(c) == "num" \in DOMAIN c

\* x.strip() if isinstance(x, str) else x
strip(c) == IF is_str(c) THEN Str(c.str) ELSE c

RECURSIVE Blanks(_)
Blanks(n) == IF n = 0 THEN "" ELSE " " \o Blanks(n - 1)

\* the characters of a string cell
Text(c) == IF "lpad" \in DOMAIN c THEN Blanks(c.lpad) \o c.str \o Blanks(c.rpad)
           ELSE c.str

\* elementwise == of pandas: NaN equals nothing, itself included
eq(a, b) == notnull(a) /\ notnull(b) /\ a = b

\* elementwise <= of pandas on a numeric column: a comparison with NaN is False
le(a, n) == is_num(a) /\ a.num <= n

\* elementwise + of two object (string) columns
add(a, b) == IF isnull(a) \/ isnull(b) THEN NaN ELSE Str(Text(a) \o Text(b))

\* Series.astype(str): a column that holds a NaN is a float column
astype_str(c, float) ==
    IF isnull(c) THEN Str("nan")
    ELSE IF is_str(c) THEN c
    ELSE Str(ToString(c.num) \o (IF float THEN ".0" ELSE ""))

(***************************************************************************)
(* Frames: a sequence of rows, each row a record of cells plus its index   *)
(* label idx (read_excel gives the RangeIndex 0..N-1, and every frame       *)
(* derived by boolean indexing is a copy that keeps the labels).            *)
(***************************************************************************)
Row(site, survey, rock, species, family, genus, class, count, size, diam, cx) ==
    [Study_Site |-> site, Survey |-> survey, Rock_number |-> rock,
     Species |-> species, Family |-> family, Genus |-> genus, Class |-> class,
     Individual_Count |-> count, Size |-> size,
     Rock_Diameter |-> diam, Rock_Complexity |-> cx]

TablesUpTo(rows, max) == UNION { [1..n -> rows] : n \in 0..max }
Tables(rows) == TablesUpTo(rows, MaxRows)

RangeIndex(t) == [i \in 1..Len(t) |-> t[i] @@ [idx |-> i - 1]]

Index(frame) == { frame[i].idx : i \in 1..Len(frame) }
loc(frame, l) == frame[CHOOSE i \in 1..Len(frame) : frame[i].idx = l]

\* frame[col] as a list of cells
Column(frame, col) == [i \in 1..Len(frame) |-> frame[i][col]]

HasNull(frame, col) == \E i \in 1..Len(frame) : isnull(frame[i][col])

\* frame[col] == value, frame[col].isin(values), frame[col].notnull():
\* boolean Series, keyed by the index labels of the frame they are computed on
eq_mask(frame, col, v) == [l \in Index(frame) |-> eq(loc(frame, l)[col], v)]
isin_mask(frame, col, vs) == [l \in Index(frame) |-> loc(frame, l)[col] \in vs]
notnull_mask(frame, col) == [l \in Index(frame) |-> notnull(loc(frame, l)[col])]

\* frame[mask]: the mask is aligned with the frame on the index labels, and the
\* result is a new frame
getitem_positional(frame, mask) ==
    LET keep == { i \in 1..Len(frame) : (i - 1) \in DOMAIN mask /\ mask[i - 1] }
        F[i \in 0..Len(frame)] ==
            IF i = 0 THEN <<>>
            ELSE IF i \in keep THEN Append(F[i - 1], frame[i]) ELSE F[i - 1]
    IN F[Len(frame)]
getitem(frame, mask) == SelectSeq(frame, LAMBDA r : mask[r.idx])

\* frame.applymap(lambda x: x.strip() if isinstance(x, str) else x)
applymap_strip(frame) ==
    [i \in 1..Len(frame) |->
        [c \in DOMAIN frame[i] |->
            IF c = "idx" THEN frame[i][c] ELSE strip(frame[i][c])]]

\* frame[col] = values (a new or replaced column)
setitem(frame, col, values) ==
    [i \in 1..Len(frame) |->
        [c \in (DOMAIN frame[i]) \cup {col} |-> IF c = col THEN values[i] ELSE frame[i][c]]]

\* Series.fillna(v)
fillna_keep(cells, v) == cells
fillna(cells, v) == [i \in 1..Len(cells) |-> IF isnull(cells[i]) THEN Num(v) ELSE cells[i]]

\* Series.sum(): missing values are skipped, the sum of nothing is 0
RECURSIVE sum(_)
sum(cells) ==
    IF cells = <<>> THEN 0
    ELSE (IF is_num(Head(cells)) THEN Head(cells).num ELSE 0) + sum(Tail(cells))

\* Series.count(): the number of non-missing values
RECURSIVE count(_)
count(cells) ==
    IF cells = <<>> THEN 0
    ELSE (IF notnull(Head(cells)) THEN 1 ELSE 0) + count(Tail(cells))

\* Series.unique(): the distinct values in order of first appearance
RECURSIVE unique(_)
unique(cells) ==
    IF cells = <<>> THEN <<>>
    ELSE LET u == unique(SubSeq(cells, 1, Len(cells) - 1))
             v == cells[Len(cells)]
         IN IF \E i \in 1..Len(u) : u[i] = v THEN u ELSE Append(u, v)

(***************************************************************************)
(* create_fisher_alpha_df                                                  *)
(***************************************************************************)
\* the two key columns the function writes into the frame it is given
with_keys(frame, float_rock) ==
    LET sample == [i \in 1..Len(frame) |->
                      add(add(frame[i].Study_Site, frame[i].Survey),
                          astype_str(frame[i].Rock_number, float_rock))]
        tax == [i \in 1..Len(frame) |->
                   add(add(frame[i].Species, frame[i].Family), frame[i].Genus)]
    IN setitem(setitem(frame, "Sample_Key", sample), "Tax_Key", tax)

\* the rows a group-by on the two keys keeps: a row with a missing key is dropped
keyed(frame) ==
    SelectSeq(frame, LAMBDA r : notnull(r.Sample_Key) /\ notnull(r.Tax_Key))

group(frame, s, t) ==
    SelectSeq(keyed(frame), LAMBDA r : r.Sample_Key = s /\ r.Tax_Key = t)

\* the aggregate of one (Sample Key, Tax Key) group
aggfunc_count(cells) == count(cells)
aggfunc(cells) == sum(cells)

\* frame.pivot_table(index='Sample Key', columns='Tax Key',
\*                   values='Individual Count', aggfunc='sum')
pivot_table(frame) ==
    LET index == { keyed(frame)[i].Sample_Key : i \in 1..Len(keyed(frame)) }
        columns == { keyed(frame)[i].Tax_Key : i \in 1..Len(keyed(frame)) }
    IN [index |-> index, columns |-> columns,
        cell |-> [st \in index \X columns |->
                    IF group(frame, st[1], st[2]) = <<>> THEN NaN
                    ELSE Num(aggfunc(Column(group(frame, st[1], st[2]),
                                            "Individual_Count")))]]

\* DataFrame.fillna(0) on the pivot
matrix_fillna(m, v) ==
    [m EXCEPT !.cell = [st \in DOMAIN m.cell |->
                           IF isnull(m.cell[st]) THEN Num(v) ELSE m.cell[st]]]

NoFile == [index |-> {}, columns |-> {}, cell |-> <<>>]

(***************************************************************************)
(* The data of the figures.                                                *)
(***************************************************************************)
Classes(frame) == { frame[i].Class : i \in 1..Len(frame) }
Labels(frame) == { frame[i].Survey : i \in 1..Len(frame) }

\* a pie of values='Individual Count' by names='Class': one slice per Class
pie_data(frame) ==
    [c \in Classes(frame) |->
        sum(Column(SelectSeq(frame, LAMBDA r : r.Class = c), "Individual_Count"))]

\* a histogram of y='Individual Count' over x='Class', one facet per Survey
histogram_data(frame) ==
    [sc \in { <<frame[i].Survey, frame[i].Class>> : i \in 1..Len(frame) } |->
        sum(Column(SelectSeq(frame, LAMBDA r : r.Survey = sc[1] /\ r.Class = sc[2]),
                   "Individual_Count"))]

\* int(frame[df['Survey'] == label]['Individual Count'].sum()), the mask taken
\* from the global df
survey_total(frame, global_df, label) ==
    sum(Column(getitem(frame, eq_mask(global_df, "Survey", Str(label))),
               "Individual_Count"))

\* frame[df['Survey'] == label].groupby("Class").count().to_dict()["Individual Count"]:
\* per Class, the number of non-missing Individual Count cells
observation_dict(frame, global_df, label) ==
    LET sub == getitem(frame, eq_mask(global_df, "Survey", Str(label)))
    IN [c \in Classes(sub) |->
           count(Column(SelectSeq(sub, LAMBDA r : r.Class = c), "Individual_Count"))]

\* pd.DataFrame(d.items(), columns=['Class', 'Count']) with the regime column
\* added; the two frames concatenated (the order of the rows is not kept here)
observation_rows(d, regime) ==
    { [Class |-> c, Count |-> d[c], Regime |-> regime] : c \in DOMAIN d }

NoFig == [plot |-> "none"]

(***************************************************************************)
(* get_pval_by_survey                                                      *)
(***************************************************************************)
None == [none |-> TRUE]
List(cells) == [list |-> cells]

\* data_df[data_df["Survey"] == sur][col_name].to_list()
to_list(data_df, sur, col_name) ==
    List(Column(getitem(data_df, eq_mask(data_df, "Survey", sur)), col_name))

\* the loop of lines 15-19 over the labels still to visit: x is assigned on the
\* first pass only, y on every pass
RECURSIVE survey_loop_refill(_, _, _, _, _, _)
survey_loop_refill(data_df, col_name, labels, x, y, flag) ==
    IF labels = <<>> THEN <<x, y>>
    ELSE survey_loop_refill(data_df, col_name, Tail(labels),
                            to_list(data_df, Head(labels), col_name),
                            to_list(data_df, Head(labels), col_name), FALSE)
RECURSIVE survey_loop_else(_, _, _, _, _, _)
survey_loop_else(data_df, col_name, labels, x, y, flag) ==
    IF labels = <<>> THEN <<x, y>>
    ELSE survey_loop_else(data_df, col_name, Tail(labels),
                          IF flag THEN to_list(data_df, Head(labels), col_name) ELSE x,
                          IF flag THEN y ELSE to_list(data_df, Head(labels), col_name),
                          FALSE)
RECURSIVE survey_loop(_, _, _, _, _, _)
survey_loop(data_df, col_name, labels, x, y, flag) ==
    IF labels = <<>> THEN <<x, y>>
    ELSE survey_loop(data_df, col_name, Tail(labels),
                     IF flag THEN to_list(data_df, Head(labels), col_name) ELSE x,
                     to_list(data_df, Head(labels), col_name), FALSE)

\* scipy.stats.mannwhitneyu(x, y), by what can come back: "p" (a p-value of the
\* two samples), "nan" or "raise".  None is no sample at all and a string is no
\* number: both raise.  An empty sample or a NaN in a sample raises or gives nan,
\* depending on the scipy release installed.
mannwhitneyu(x, y) ==
    IF x = None \/ y = None THEN {"raise"}
    ELSE IF \E i \in 1..Len(x.list) : is_str(x.list[i]) THEN {"raise"}
    ELSE IF \E i \in 1..Len(y.list) : is_str(y.list[i]) THEN {"raise"}
    ELSE IF \/ x.list = <<>> \/ y.list = <<>>
            \/ \E i \in 1..Len(x.list) : isnull(x.list[i])
            \/ \E i \in 1..Len(y.list) : isnull(y.list[i]) THEN {"raise", "nan"}
    ELSE {"p"}

\* the calls get_pval_by_survey can make and what each gives back
get_pval_by_survey(data_df, col_name) ==
    LET xy == survey_loop(data_df, col_name, unique(Column(data_df, "Survey")),
                          None, None, TRUE)
    IN { [x |-> xy[1], y |-> xy[2], out |-> o] : o \in mannwhitneyu(xy[1], xy[2]) }

NoCall == [out |-> "none"]

(***************************************************************************)
(* The literals of the script.                                             *)
(***************************************************************************)
Cap == 50
\* 0.001 cm, in thousandths of a centimetre
SmallSize == 1

\* data_df['Individual Count'].where(data_df['Individual Count'] <= 50, 50)
where_le_swapped(cells, n) ==
    [i \in 1..Len(cells) |-> IF le(cells[i], n) THEN Num(n) ELSE cells[i]]
where_le(cells, n) ==
    [i \in 1..Len(cells) |-> IF le(cells[i], n) THEN cells[i] ELSE Num(n)]

\* data_df["Size of the organism (cm)"].replace(">0.1", 0.001)
replace_below(cells) ==
    [i \in 1..Len(cells) |-> IF cells[i] = Str("<0.1") THEN Num(SmallSize) ELSE cells[i]]
replace(cells) ==
    [i \in 1..Len(cells) |-> IF cells[i] = Str(">0.1") THEN Num(SmallSize) ELSE cells[i]]

(***************************************************************************)
(* The main block: its statements in their written order.                  *)
(***************************************************************************)
OrderFillFirst ==
         << "read_excel", "applymap", "fillna", "species_df",
            "create_fisher_alpha_df", "site_Kioski", "site_IUI", "subsets",
            "tides_class", "times_class", "tides_observation", "times_observation",
            "per_rock_Tide", "size_Tide", "per_rock_Time", "size_Time",
            "rock_size_Tide", "rock_complexity_Tide",
            "rock_size_Time", "rock_complexity_Time", "done" >>
Order == << "read_excel", "applymap", "species_df", "fillna",
            "create_fisher_alpha_df", "site_Kioski", "site_IUI", "subsets",
            "tides_class", "times_class", "tides_observation", "times_observation",
            "per_rock_Tide", "size_Tide", "per_rock_Time", "size_Time",
            "rock_size_Tide", "rock_complexity_Tide",
            "rock_size_Time", "rock_complexity_Time", "done" >>

Pos(s) == CHOOSE i \in 1..Len(Order) : Order[i] = s
Succ(s) == Order[Pos(s) + 1]

At(s) == pc = s /\ ~failed

\* the statement completed: the next one begins
Done == pc' = Succ(pc) /\ failed' = FALSE

\* an exception nobody handles: the interpreter prints the traceback and exits
RaiseSwallowed == pc' = Succ(pc) /\ failed' = FALSE
Raise == pc' = pc /\ failed' = TRUE

\* fig.write_image(path), to_csv(path), fig.show(): the artefact exists once the
\* call returns
Emit(what) == outputs' = Append(outputs, what)

(***************************************************************************)
(* The sheets the script is run on.  Every row names its site, survey and  *)
(* rock; what was observed under the rock may be missing.  The sheet's     *)
(* "Low Tide" cells carry a trailing blank.                                *)
(***************************************************************************)
Sites == { Str("IUI"), Str("KISOSKI") }
Surveys == { Str("High Tide"), Padded("Low Tide", 0, 1), Str("Day"), Str("Night") }

\* what a row records about the organisms under the rock
Observations ==
    { [Class |-> NaN, Species |-> NaN, Family |-> NaN, Genus |-> NaN,
       Individual_Count |-> NaN, Size |-> NaN],
      [Class |-> Str("Gastropoda"), Species |-> Str("Nerita"), Family |-> Str("Neritidae"),
       Genus |-> Str("Nerita"), Individual_Count |-> NaN, Size |-> Num(2000)],
      [Class |-> Str("Gastropoda"), Species |-> Str("Nerita"), Family |-> Str("Neritidae"),
       Genus |-> Str("Nerita"), Individual_Count |-> Num(60), Size |-> Num(2000)],
      [Class |-> Str("Bivalvia"), Species |-> Str("Brachidontes"), Family |-> Str("Mytilidae"),
       Genus |-> NaN, Individual_Count |-> Num(4), Size |-> Str(">0.1")] }

SheetRows ==
    { Row(site, survey, Num(1), o.Species, o.Family, o.Genus, o.Class,
          o.Individual_Count, o.Size, Num(10), Num(3)) :
        site \in Sites, survey \in Surveys, o \in Observations }

(***************************************************************************)
(* Initial state: the interpreter is about to run the main block.          *)
(***************************************************************************)
Init ==
    /\ pc = "read_excel"
    /\ failed = FALSE
    /\ df = <<>>
    /\ species_df = <<>>
    /\ site_df = <<>>
    /\ tide_df = <<>>
    /\ time_df = <<>>
    /\ tide_df_with_zeroes = <<>>
    /\ time_df_with_zeroes = <<>>
    /\ csv = NoFile
    /\ fig = NoFig
    /\ pval = NoCall
    /\ outputs = <<>>

(***************************************************************************)
(* Lines 264-274: load, clean, filter, fill.                               *)
(***************************************************************************)
\* df = pd.read_excel("data.xlsx")
ReadExcel ==
    /\ At("read_excel")
    /\ \/ \E t \in Tables(SheetRows) : df' = RangeIndex(t) /\ Done
       \/ df' = df /\ Raise
    /\ UNCHANGED <<species_df, site_df, tide_df, time_df, tide_df_with_zeroes,
                   time_df_with_zeroes, csv, fig, pval, outputs>>

\* df = df.applymap(lambda x: x.strip() if isinstance(x, str) else x)
CleanWhitespace ==
    /\ At("applymap")
    /\ df' = applymap_strip(df)
    /\ Done
    /\ UNCHANGED <<species_df, site_df, tide_df, time_df, tide_df_with_zeroes,
                   time_df_with_zeroes, csv, fig, pval, outputs>>

\* species_df = df[df.Class.notnull()]
class_filter_all(frame) == frame
class_filter(frame) == getitem(frame, notnull_mask(frame, "Class"))

FilterSpecies ==
    /\ At("species_df")
    /\ species_df' = class_filter(df)
    /\ Done
    /\ UNCHANGED <<df, site_df, tide_df, time_df, tide_df_with_zeroes,
                   time_df_with_zeroes, csv, fig, pval, outputs>>

\* df['Individual Count'] = df['Individual Count'].fillna(0)
FillCounts ==
    /\ At("fillna")
    /\ df' = setitem(df, "Individual_Count", fillna(Column(df, "Individual_Count"), 0))
    /\ Done
    /\ UNCHANGED <<species_df, site_df, tide_df, time_df, tide_df_with_zeroes,
                   time_df_with_zeroes, csv, fig, pval, outputs>>

(***************************************************************************)
(* Line 277: create_fisher_alpha_df(species_df).  The key columns are      *)
(* written into species_df itself; the csv exists once to_csv returns.     *)
(***************************************************************************)
create_fisher_alpha_df ==
    /\ At("create_fisher_alpha_df")
    /\ species_df' = with_keys(species_df, HasNull(df, "Rock_number"))
    /\ \/ /\ csv' = matrix_fillna(pivot_table(species_df'), 0)
          /\ Emit("to_fisher_alpha_df.csv")
          /\ Done
       \/ UNCHANGED <<csv, outputs>> /\ Raise
    /\ UNCHANGED <<df, site_df, tide_df, time_df, tide_df_with_zeroes,
                   time_df_with_zeroes, fig, pval>>

(***************************************************************************)
(* Line 279: compare_sites(species_df), one pie per site.                  *)
(***************************************************************************)
\* create_site_composition_plot(site_df, site_name)
create_site_composition_plot(site, site_name) ==
    /\ site_df' = site
    /\ fig' = [plot |-> "pie", name |-> site_name,
               total |-> sum(Column(site, "Individual_Count")),
               data |-> pie_data(site)]
    /\ \/ Emit("plots/class_composition_" \o site_name \o ".png") /\ Done
       \/ UNCHANGED outputs /\ Raise
    /\ UNCHANGED <<df, species_df, tide_df, time_df, tide_df_with_zeroes,
                   time_df_with_zeroes, csv, pval>>

\* df[df['Study Site'].isin([site])]
site_of(frame, site) == getitem(frame, isin_mask(frame, "Study_Site", {Str(site)}))

SitePlotKioski ==
    /\ At("site_Kioski")
    /\ create_site_composition_plot(site_of(species_df, "KISOSKI"), "Kioski")

SitePlotIUI ==
    /\ At("site_IUI")
    /\ create_site_composition_plot(site_of(species_df, "IUI"), "IUI")

(***************************************************************************)
(* Lines 282-286: the four comparison frames.                              *)
(***************************************************************************)
survey_in(frame, labels) ==
    getitem(frame, isin_mask(frame, "Survey", { Str(l) : l \in labels }))

DeriveSubsets ==
    /\ At("subsets")
    /\ tide_df' = survey_in(species_df, {"High Tide", "Low Tide"})
    /\ time_df' = survey_in(species_df, {"Day", "Night"})
    /\ tide_df_with_zeroes' = survey_in(df, {"High Tide", "Low Tide"})
    /\ time_df_with_zeroes' = survey_in(df, {"Day", "Night"})
    /\ Done
    /\ UNCHANGED <<df, species_df, site_df, csv, fig, pval, outputs>>

(***************************************************************************)
(* Lines 289-293: the composition histograms and the occurrence charts.    *)
(* Each function takes its masks from the global df.                       *)
(***************************************************************************)
\* compare_tides_class_barplot / compare_times_class_barplot
class_barplot(frame, first, second, path) ==
    /\ fig' = [plot |-> "histogram", name |-> path,
               totals |-> [l \in {first, second} |-> survey_total(frame, df, l)],
               data |-> histogram_data(frame)]
    /\ \/ Emit(path) /\ Done
       \/ UNCHANGED outputs /\ Raise
    /\ UNCHANGED <<frames, csv, pval>>

compare_tides_class_barplot ==
    /\ At("tides_class")
    /\ class_barplot(tide_df, "High Tide", "Low Tide", "plots/tide_class_comparison.png")

compare_times_class_barplot ==
    /\ At("times_class")
    /\ class_barplot(time_df, "Night", "Day", "plots/time_class_comparison.png")

\* compare_tides_observation_diff_class_barplot /
\* compare_times_observation_diff_class_barplot
observation_barplot(frame, first, second, title) ==
    /\ fig' = [plot |-> "grouped histogram", name |-> title,
               data |-> observation_rows(observation_dict(frame, df, first), first)
                        \cup observation_rows(observation_dict(frame, df, second), second)]
    /\ \/ Emit("show: " \o title) /\ Done
       \/ UNCHANGED outputs /\ Raise
    /\ UNCHANGED <<frames, csv, pval>>

compare_tides_observation_diff_class_barplot ==
    /\ At("tides_observation")
    /\ observation_barplot(tide_df, "Low Tide", "High Tide",
                           "High Tide Zone Organism Composition Distribution")

compare_times_observation_diff_class_barplot ==
    /\ At("times_observation")
    /\ observation_barplot(time_df, "Day", "Night",
                           "Mid Tide Zone Organism Composition Distribution")

(***************************************************************************)
(* Lines 296-303: the boxplots with the p-value annotation.                *)
(***************************************************************************)
\* the common part of the four overview functions: the boxplot, the test, the
\* annotation and fig.show(); a raise of the test ends the run before the show
boxplot(data_df, y, col_name, title) ==
    \E r \in get_pval_by_survey(data_df, col_name) :
        /\ pval' = r
        /\ IF r.out = "raise"
           THEN UNCHANGED <<fig, outputs>> /\ Raise
           ELSE /\ fig' = [plot |-> "box", name |-> title,
                           y |-> Column(data_df, y), annotation |-> r.out]
                /\ \/ Emit("show: " \o title) /\ Done
                   \/ UNCHANGED outputs /\ Raise

\* the column overview_data_individuals_per_rock adds
count_fixed(frame) ==
    setitem(frame, "Count_Fixed", where_le(Column(frame, "Individual_Count"), Cap))

\* the column overview_data_individuals_size adds
size_fixed(frame) == setitem(frame, "Size_fixed", replace(Column(frame, "Size")))

\* overview_data_individuals_per_rock(tide_df_with_zeroes, "Tide")
PerRockTide ==
    /\ At("per_rock_Tide")
    /\ tide_df_with_zeroes' = count_fixed(tide_df_with_zeroes)
    /\ boxplot(tide_df_with_zeroes', "Count_Fixed", "Individual_Count",
               "Observations per rock Tide")
    /\ UNCHANGED <<df, species_df, site_df, tide_df, time_df, time_df_with_zeroes, csv>>

\* overview_data_individuals_size(tide_df, "Tide")
SizeTide ==
    /\ At("size_Tide")
    /\ tide_df' = size_fixed(tide_df)
    /\ boxplot(tide_df', "Size_fixed", "Size_fixed", "Individuals size comparison Tide")
    /\ UNCHANGED <<df, species_df, site_df, time_df, tide_df_with_zeroes,
                   time_df_with_zeroes, csv>>

\* overview_data_individuals_per_rock(time_df_with_zeroes, "Time")
PerRockTime ==
    /\ At("per_rock_Time")
    /\ time_df_with_zeroes' = count_fixed(time_df_with_zeroes)
    /\ boxplot(time_df_with_zeroes', "Count_Fixed", "Individual_Count",
               "Observations per rock Time")
    /\ UNCHANGED <<df, species_df, site_df, tide_df, time_df, tide_df_with_zeroes, csv>>

\* overview_data_individuals_size(time_df, "Time")
SizeTime ==
    /\ At("size_Time")
    /\ time_df' = size_fixed(time_df)
    /\ boxplot(time_df', "Size_fixed", "Size_fixed", "Individuals size comparison Time")
    /\ UNCHANGED <<df, species_df, site_df, tide_df, tide_df_with_zeroes,
                   time_df_with_zeroes, csv>>

\* metadata_comparison(tide_df, "Tide"): overview_data_rock_size, then
\* overview_data_rock_complexity
RockSizeTide ==
    /\ At("rock_size_Tide")
    /\ boxplot(tide_df, "Rock_Diameter", "Rock_Diameter", "Rock size comparison Tide")
    /\ UNCHANGED <<frames, csv>>

RockComplexityTide ==
    /\ At("rock_complexity_Tide")
    /\ boxplot(tide_df, "Rock_Complexity", "Rock_Complexity",
               "Rock complexity comparison Tide")
    /\ UNCHANGED <<frames, csv>>

\* metadata_comparison(time_df, "Time")
RockSizeTime ==
    /\ At("rock_size_Time")
    /\ boxplot(time_df, "Rock_Diameter", "Rock_Diameter", "Rock size comparison Time")
    /\ UNCHANGED <<frames, csv>>

RockComplexityTime ==
    /\ At("rock_complexity_Time")
    /\ boxplot(time_df, "Rock_Complexity", "Rock_Complexity",
               "Rock complexity comparison Time")
    /\ UNCHANGED <<frames, csv>>

(***************************************************************************)
(* The run of the script.                                                  *)
(***************************************************************************)
Next ==
    \/ ReadExcel
    \/ CleanWhitespace
    \/ FilterSpecies
    \/ FillCounts
    \/ create_fisher_alpha_df
    \/ SitePlotKioski
    \/ SitePlotIUI
    \/ DeriveSubsets
    \/ compare_tides_class_barplot
    \/ compare_times_class_barplot
    \/ compare_tides_observation_diff_class_barplot
    \/ compare_times_observation_diff_class_barplot
    \/ PerRockTide
    \/ SizeTide
    \/ PerRockTime
    \/ SizeTime
    \/ RockSizeTide
    \/ RockComplexityTide
    \/ RockSizeTime
    \/ RockComplexityTime

Spec == Init /\ [][Next]_vars

(***************************************************************************)
(* The functions on their own, each from the state in which the main block *)
(* calls it, over frames richer in the columns the function reads.         *)
(***************************************************************************)
Idle(at, frame_df) ==
    /\ pc = at
    /\ failed = FALSE
    /\ df = frame_df
    /\ site_df = <<>>
    /\ time_df = <<>>
    /\ tide_df_with_zeroes = <<>>
    /\ time_df_with_zeroes = <<>>
    /\ csv = NoFile
    /\ fig = NoFig
    /\ pval = NoCall
    /\ outputs = <<>>

\* create_fisher_alpha_df on Class-filtered frames: every row names its site and
\* survey (the rock number may be missing, and astype(str) makes it "nan"); the
\* taxonomy and the count may be missing
Samples ==
    { [Study_Site |-> Str("IUI"), Survey |-> Str("Day"), Rock_number |-> Num(1)],
      [Study_Site |-> Str("IUI"), Survey |-> Str("Day"), Rock_number |-> Num(2)],
      [Study_Site |-> Str("KISOSKI"), Survey |-> Str("Night"), Rock_number |-> NaN] }

Taxa ==
    { [Class |-> Str("Gastropoda"), Species |-> Str("Nerita"),
       Family |-> Str("Neritidae"), Genus |-> Str("Nerita")],
      [Class |-> Str("Bivalvia"), Species |-> Str("Brachidontes"),
       Family |-> Str("Mytilidae"), Genus |-> Str("Brachidontes")],
      [Class |-> Str("Bivalvia"), Species |-> NaN,
       Family |-> Str("Mytilidae"), Genus |-> NaN] }

FisherRows ==
    { Row(s.Study_Site, s.Survey, s.Rock_number, t.Species, t.Family, t.Genus,
          t.Class, c, Num(2000), Num(10), Num(3)) :
        s \in Samples, t \in Taxa, c \in { NaN, Num(3), Num(5) } }

InitFisher ==
    /\ \E t \in Tables(FisherRows) :
          /\ species_df = RangeIndex(t)
          /\ Idle("create_fisher_alpha_df",
                  setitem(RangeIndex(t), "Individual_Count",
                          fillna(Column(RangeIndex(t), "Individual_Count"), 0)))
    /\ tide_df = <<>>

SpecFisher == InitFisher /\ [][create_fisher_alpha_df]_vars

\* overview_data_individuals_size on frames with every kind of size cell
SizeRows ==
    { Row(Str("IUI"), Str(survey), Num(1), Str("Nerita"), Str("Neritidae"),
          Str("Nerita"), Str("Gastropoda"), Num(3), size, Num(10), Num(3)) :
        survey \in { "High Tide", "Low Tide" },
        size \in { NaN, Str(">0.1"), Str("<0.1"), Num(SmallSize), Num(2000) } }

InitSize ==
    /\ \E t \in Tables(SizeRows) :
          /\ tide_df = RangeIndex(t)
          /\ species_df = RangeIndex(t)
          /\ Idle("size_Tide", RangeIndex(t))

SpecSize == InitSize /\ [][SizeTide]_vars

\* get_pval_by_survey, called by overview_data_rock_size, on frames with up to
\* three Survey labels
SampleRows ==
    { Row(Str("IUI"), Str(survey), Num(1), Str("Nerita"), Str("Neritidae"),
          Str("Nerita"), Str("Gastropoda"), Num(3), Num(2000), diam, Num(3)) :
        survey \in { "High Tide", "Low Tide", "Day" },
        diam \in { Num(10), Num(20) } }

InitHelper ==
    /\ \E t \in TablesUpTo(SampleRows, MaxSample) :
          /\ tide_df = RangeIndex(t)
          /\ species_df = RangeIndex(t)
          /\ Idle("rock_size_Tide", RangeIndex(t))

SpecHelper == InitHelper /\ [][RockSizeTide]_vars

(***************************************************************************)
(* What the properties below read off a state.  These are stated over the  *)
(* rows of a frame one by one, not with the operators that model pandas.   *)
(***************************************************************************)
Passed(s) == Pos(pc) > Pos(s)

\* the total of the Individual Count cells of the rows of frame whose column
\* col holds v, a missing count adding nothing
TotalWhere(frame, col, v) ==
    LET T[i \in 0..Len(frame)] ==
            IF i = 0 THEN 0
            ELSE T[i - 1] + (IF frame[i][col] = v /\ is_num(frame[i].Individual_Count)
                             THEN frame[i].Individual_Count.num ELSE 0)
    IN T[Len(frame)]

Total(frame) ==
    LET T[i \in 0..Len(frame)] ==
            IF i = 0 THEN 0
            ELSE T[i - 1] + (IF is_num(frame[i].Individual_Count)
                             THEN frame[i].Individual_Count.num ELSE 0)
    IN T[Len(frame)]

\* the sum of the values of a function with a finite domain
RECURSIVE FnSum(_)
FnSum(f) ==
    IF DOMAIN f = {} THEN 0
    ELSE LET k == CHOOSE k \in DOMAIN f : TRUE
         IN f[k] + FnSum([j \in DOMAIN f \ {k} |-> f[j]])

IsPrefix(a, b) == Len(a) <= Len(b) /\ a = SubSeq(b, 1, Len(a))

(***************************************************************************)
(* C1.  The matrix create_fisher_alpha_df writes has a cell for every      *)
(* Sample Key and Tax Key, none of them missing, a pair no input row       *)
(* carries being 0; and for every Tax Key that occurs in the input rows    *)
(* the column of that key sums, over the Sample Keys, to the total         *)
(* Individual Count of the input rows carrying the key.                    *)
(***************************************************************************)
TaxKeys(frame) == { frame[i].Tax_Key : i \in 1..Len(frame) } \ { NaN }

Capped(frame) ==
    \A i \in 1..Len(frame) :
        "Count_Fixed" \in DOMAIN frame[i] =>
            /\ (is_num(frame[i].Individual_Count) /\ frame[i].Individual_Count.num > 50)
                  => frame[i].Count_Fixed = Num(50)
            /\ (is_num(frame[i].Individual_Count) /\ frame[i].Individual_Count.num <= 50)
                  => frame[i].Count_Fixed = frame[i].Individual_Count

C2_CountFixed == Capped(tide_df_with_zeroes) /\ Capped(time_df_with_zeroes)

C2_Witness ==
    \E i \in 1..Len(tide_df_with_zeroes), j \in 1..Len(tide_df_with_zeroes) :
        /\ "Count_Fixed" \in DOMAIN tide_df_with_zeroes[i]
        /\ tide_df_with_zeroes[i].Individual_Count = Num(60)
        /\ tide_df_with_zeroes[i].Count_Fixed = Num(50)
        /\ tide_df_with_zeroes[j].Individual_Count = Num(0)
        /\ tide_df_with_zeroes[j].Count_Fixed = Num(0)

(***************************************************************************)
(* C3.  The per-Class values of a composition chart add up to the total    *)
(* Individual Count of the frame charted; the two totals in the title of a *)
(* tide or time histogram are the sums of Individual Count over the rows   *)
(* of that regime, and add up to the total of the frame; the total in the  *)
(* title of a site pie is the total of the site's frame.                   *)
(***************************************************************************)
HistogramTotals(frame, first, second) ==
    /\ fig.totals[first] = TotalWhere(frame, "Survey", Str(first))
    /\ fig.totals[second] = TotalWhere(frame, "Survey", Str(second))
    /\ FnSum(fig.data) = Total(frame)
    /\ fig.totals[first] + fig.totals[second] = Total(frame)

C3_ChartTotals ==
    /\ (fig.plot = "histogram" /\ fig.name = "plots/tide_class_comparison.png")
          => HistogramTotals(tide_df, "High Tide", "Low Tide")
    /\ (fig.plot = "histogram" /\ fig.name = "plots/time_class_comparison.png")
          => HistogramTotals(time_df, "Night", "Day")
    /\ fig.plot = "pie"
          => FnSum(fig.data) = Total(site_df) /\ fig.total = Total(site_df)

C3_Witness ==
    /\ fig.plot = "histogram"
    /\ fig.name = "plots/tide_class_comparison.png"
    /\ fig.totals["High Tide"] = 60
    /\ fig.totals["Low Tide"] = 4
    /\ Cardinality(DOMAIN fig.data) = 2

(***************************************************************************)
(* C4.  Once derived, species_df has no more rows than df, each of its     *)
(* rows has a Class, and every row of df that has a Class is in it; the    *)
(* frames derived from it (the site frames, tide_df, time_df) have no more *)
(* rows than df either, and each of their rows has a Class.                *)
(***************************************************************************)
AllClassed(frame) ==
    /\ Len(frame) <= Len(df)
    /\ \A i \in 1..Len(frame) : frame[i].Class # NaN

C4_ClassFiltered ==
    Passed("species_df") =>
        /\ AllClassed(species_df)
        /\ \A j \in 1..Len(df) :
              df[j].Class # NaN =>
                  \E i \in 1..Len(species_df) :
                      /\ species_df[i].idx = df[j].idx
                      /\ species_df[i].Class = df[j].Class
                      /\ species_df[i].Survey = df[j].Survey
        /\ AllClassed(site_df)
        /\ AllClassed(tide_df)
        /\ AllClassed(time_df)

C4_Witness ==
    /\ Passed("subsets")
    /\ Len(df) = 2
    /\ Len(species_df) = 1
    /\ Len(tide_df) = 1
    /\ \E j \in 1..Len(df) : df[j].Class = NaN

(***************************************************************************)
(* C5.  In the frame overview_data_individuals_size was given, a row's     *)
(* Size fixed is 0.001 when its size is the string ">0.1" and is its size, *)
(* whatever that is, otherwise.                                            *)
(***************************************************************************)
Recoded(frame) ==
    \A i \in 1..Len(frame) :
        "Size_fixed" \in DOMAIN frame[i] =>
            frame[i].Size_fixed =
                IF frame[i].Size = Str(">0.1") THEN Num(SmallSize) ELSE frame[i].Size

C5_SizeFixed == Recoded(tide_df) /\ Recoded(time_df)

C5_Witness ==
    \E i \in 1..Len(tide_df), j \in 1..Len(tide_df) :
        /\ "Size_fixed" \in DOMAIN tide_df[i]
        /\ tide_df[i].Size = Str(">0.1")
        /\ tide_df[i].Size_fixed = Num(SmallSize)
        /\ tide_df[j].Size = Num(2000)
        /\ tide_df[j].Size_fixed = Num(2000)

(***************************************************************************)
(* C6.  As claimed: a call of get_pval_by_survey on a frame with more than *)
(* two Survey labels, or one that hands the test an empty group, raises,   *)
(* and the run ends there.                                                 *)
(***************************************************************************)
Called == pval # NoCall

EmptyGroup ==
    \/ pval.x = None
    \/ pval.y = None
    \/ pval.x = List(<<>>)
    \/ pval.y = List(<<>>)

C6_AsClaimed ==
    (Called /\ (Cardinality(Labels(tide_df)) > 2 \/ EmptyGroup))
        => pval.out = "raise" /\ failed

(***************************************************************************)
(* C6, amended.  A call of get_pval_by_survey on a frame without rows has  *)
(* no group to test (both samples stay None): it raises, and the run ends  *)
(* there.  On a frame with rows, all values numbers, the call returns a    *)
(* p-value however many Survey labels the frame has, more than two         *)
(* included.                                                               *)
(***************************************************************************)
C6_RaisesOnlyWithoutRows ==
    Called =>
        /\ tide_df = <<>> => pval.out = "raise" /\ failed /\ EmptyGroup
        /\ tide_df # <<>> => pval.out = "p" /\ ~EmptyGroup

C6_Witness ==
    /\ Called
    /\ Cardinality(Labels(tide_df)) = 3
    /\ pval.out = "p"
    /\ ~failed

(***************************************************************************)
(* C8.  get_pval_by_survey tests the values of the rows with the label of  *)
(* the first row against the values of the rows with the label that        *)
(* appears last for the first time; the rows of any other label are in     *)
(* neither sample, and with one label the two samples are the same.        *)
(***************************************************************************)
\* the values of column col of the rows whose Survey is label, in row order
ValuesOf(frame, col, label) ==
    LET V[i \in 0..Len(frame)] ==
            IF i = 0 THEN <<>>
            ELSE IF frame[i].Survey = label THEN Append(V[i - 1], frame[i][col])
            ELSE V[i - 1]
    IN V[Len(frame)]

\* the rows at which a label appears for the first time
FirstSeen(frame) ==
    { i \in 1..Len(frame) : \A j \in 1..(i - 1) : frame[j].Survey # frame[i].Survey }

LastLabel(frame) ==
    frame[CHOOSE i \in FirstSeen(frame) : \A k \in FirstSeen(frame) : k <= i].Survey

C8_FirstAgainstLast ==
    (Called /\ tide_df # <<>>) =>
        /\ pval.x = List(ValuesOf(tide_df, "Rock_Diameter", tide_df[1].Survey))
        /\ pval.y = List(ValuesOf(tide_df, "Rock_Diameter", LastLabel(tide_df)))
        /\ Cardinality(Labels(tide_df)) = 1 => pval.x = pval.y

C8_Witness ==
    /\ Called
    /\ Len(tide_df) = 3
    /\ Cardinality(Labels(tide_df)) = 3
    /\ tide_df[2].Rock_Diameter = Num(20)
    /\ pval.x = List(<<Num(10)>>)
    /\ pval.y = List(<<Num(10)>>)

(***************************************************************************)
(* C9.  As claimed: in the occurrence chart of the tide surveys, the Count *)
(* of a Class in a regime is the number of rows of tide_df with that Class *)
(* and that regime, a row whose Individual Count is missing counting too.  *)
(***************************************************************************)
RowsOf(frame, regime, class) ==
    Cardinality({ i \in 1..Len(frame) :
                    frame[i].Survey = Str(regime) /\ frame[i].Class = class })

C9_AsClaimed ==
    (fig.plot = "grouped histogram"
        /\ fig.name = "High Tide Zone Organism Composition Distribution") =>
        \A regime \in {"Low Tide", "High Tide"} :
            \A class \in Classes(tide_df) :
                RowsOf(tide_df, regime, class) > 0 =>
                    [Class |-> class, Count |-> RowsOf(tide_df, regime, class),
                     Regime |-> regime] \in fig.data

(***************************************************************************)
(* C7.  The statements of the main block run one after another in their    *)
(* written order, each completing before the next begins; once one raises  *)
(* nothing runs any more: no later file or figure is produced, and what    *)
(* was produced before remains.                                            *)
(***************************************************************************)
\* what a complete run produces, first to last
Produced ==
    << "to_fisher_alpha_df.csv",
       "plots/class_composition_Kioski.png",
       "plots/class_composition_IUI.png",
       "plots/tide_class_comparison.png",
       "plots/time_class_comparison.png",
       "show: High Tide Zone Organism Composition Distribution",
       "show: Mid Tide Zone Organism Composition Distribution",
       "show: Observations per rock Tide",
       "show: Individuals size comparison Tide",
       "show: Observations per rock Time",
       "show: Individuals size comparison Time",
       "show: Rock size comparison Tide",
       "show: Rock complexity comparison Tide",
       "show: Rock size comparison Time",
       "show: Rock complexity comparison Time" >>

\* the statements that produce nothing
Silent == { "read_excel", "applymap", "species_df", "fillna", "subsets" }

\* the number of producing statements before the one the run is at
ProducedSoFar == Cardinality({ i \in 1..(Pos(pc) - 1) : Order[i] \notin Silent })

C7_InOrderUntilFailure ==
    /\ [](outputs = SubSeq(Produced, 1, ProducedSoFar))
    /\ [][ /\ ~failed
           /\ \/ pc' = Succ(pc) /\ ~failed' /\ IsPrefix(outputs, outputs')
              \/ pc' = pc /\ failed' /\ outputs' = outputs ]_vars

C7_Witness ==
    /\ failed
    /\ pc = "per_rock_Time"
    /\ Len(outputs) = 9
    /\ outputs[9] = "show: Individuals size comparison Tide"

(***************************************************************************)
(* C10.  The fill of the missing Individual Count cells of df comes after  *)
(* species_df is derived and before the with-zeroes frames are: from the   *)
(* fill on, no row of df (nor, so, of tide_df_with_zeroes and              *)
(* time_df_with_zeroes) has a missing Individual Count, while the rows of  *)
(* species_df and of the frames derived from it keep the Individual Count  *)
(* they had in df before the fill, the missing ones missing.               *)
(***************************************************************************)
Counted(frame) == \A i \in 1..Len(frame) : frame[i].Individual_Count # NaN

\* every row of frame has the Individual Count of the row of source with its label
SameCounts(frame, source) ==
    \A i \in 1..Len(frame) :
        \E j \in 1..Len(source) :
            /\ source[j].idx = frame[i].idx
            /\ source[j].Individual_Count = frame[i].Individual_Count

C10_FillAfterSpecies ==
    /\ [](Passed("fillna") =>
            /\ Counted(df)
            /\ Counted(tide_df_with_zeroes)
            /\ Counted(time_df_with_zeroes)
            /\ SameCounts(site_df, species_df)
            /\ SameCounts(tide_df, species_df)
            /\ SameCounts(time_df, species_df))
    /\ [][ /\ (pc = "fillna" /\ pc' # pc) =>
                 /\ \A j \in 1..Len(df) :
                       df[j].Class # NaN =>
                           \E i \in 1..Len(species_df) : species_df[i].idx = df[j].idx
                 /\ SameCounts(species_df', df)
                 /\ tide_df_with_zeroes = <<>> /\ time_df_with_zeroes = <<>>
                 /\ ~Passed("subsets")
           /\ Passed("fillna") =>
                 Column(species_df', "Individual_Count")
                     = Column(species_df, "Individual_Count") ]_vars

C10_Witness ==
    /\ Passed("subsets")
    /\ \E i \in 1..Len(tide_df) : tide_df[i].Individual_Count = NaN
    /\ \E i \in 1..Len(tide_df_with_zeroes) :
          /\ tide_df_with_zeroes[i].Class = NaN
          /\ tide_df_with_zeroes[i].Individual_Count = Num(0)

====
